---- MODULE Spec2Model ----
(***************************************************************************)
(* Model of the player store (usePlayerStore), its lookup tables           *)
(* (lib/game/stats.ts, lib/game/inventory.ts) and the auto-save            *)
(* subscriber (SaveManager) of one-rpg-game.                               *)
(*                                                                         *)
(* Fixed-point conventions (the program uses IEEE doubles; the model uses  *)
(* exact rationals with a fixed denominator):                              *)
(*   xp, maxXp            in 1/XpScale  XP      (XpScale  = 50)            *)
(*   health, maxHealth    in 1/HpScale  HP      (HpScale  = 80)            *)
(*   critChance, defense  in 1/PctScale         (PctScale = 10000)         *)
(*   speed                in 1/100                                         *)
(*   now and every timestamp in units of TimeUnit = 500 ms                 *)
(***************************************************************************)
EXTENDS Integers, Sequences, FiniteSets, TLC

VARIABLES player, gameState, now, timers, saveManagerMounted, lastSaveTime,
          saveQueue, dbSave, out, split

vars == <<player, gameState, now, timers, saveManagerMounted, lastSaveTime,
          saveQueue, dbSave, out, split>>

(***************************************************************************)
(* Scales and bounds                                                       *)
(***************************************************************************)
\* XP is counted in 1/50 (registerKill grants multiples of 0.2 * 0.1),
\* health in 1/80 (takeDamage removes amount * (1 - defense)),
\* crit and defense bonuses in 1/10000
XpScale == 50
HpScale == 80
PctScale == 10000

\* largest level the explored runs reach (XP-granting steps stop there)
MaxLevel == 3
\* largest echoes balance / stack size the explored runs build up
MaxStock == 10
\* largest combo streak the explored runs build up
MaxTempo == 3
\* number of 500 ms steps the clock advances in the explored runs
MaxTime == 6
\* longest stretch of time the combo runs cover, in 500 ms units
MaxComboTime == 20

\* highest level the XP curve is evaluated at
MaxCurveLevel == 560
\* longest streak explored
MaxStreak == 102
\* highest level the stat table is evaluated at
MaxStatLevel == 105

\* Date.now() at start-up, in 500 ms units: far beyond every cooldown
StartTime == 100

Max(a, b) == IF a >= b THEN a ELSE b
Min(a, b) == IF a <= b THEN a ELSE b

(***************************************************************************)
(* lib/game/stats.ts                                                       *)
(***************************************************************************)
STAT_INCREMENTS ==
  << [maxLevel |-> 10, hp |-> 4, dmg |-> 1],
     [maxLevel |-> 20, hp |-> 8, dmg |-> 2],
     [maxLevel |-> 30, hp |-> 10, dmg |-> 3],
     [maxLevel |-> 40, hp |-> 14, dmg |-> 4],
     [maxLevel |-> 50, hp |-> 18, dmg |-> 5],
     [maxLevel |-> 60, hp |-> 24, dmg |-> 6],
     [maxLevel |-> 70, hp |-> 30, dmg |-> 8],
     [maxLevel |-> 80, hp |-> 36, dmg |-> 10],
     [maxLevel |-> 90, hp |-> 42, dmg |-> 12],
     [maxLevel |-> 100, hp |-> 51, dmg |-> 15],
     [maxLevel |-> 110, hp |-> 60, dmg |-> 18],
     [maxLevel |-> 120, hp |-> 80, dmg |-> 21],
     [maxLevel |-> 130, hp |-> 105, dmg |-> 24],
     [maxLevel |-> 140, hp |-> 140, dmg |-> 28],
     [maxLevel |-> 150, hp |-> 175, dmg |-> 33],
     [maxLevel |-> 160, hp |-> 216, dmg |-> 39],
     [maxLevel |-> 170, hp |-> 264, dmg |-> 45],
     [maxLevel |-> 180, hp |-> 312, dmg |-> 51],
     [maxLevel |-> 190, hp |-> 378, dmg |-> 59],
     [maxLevel |-> 200, hp |-> 420, dmg |-> 66],
     [maxLevel |-> 210, hp |-> 480, dmg |-> 73],
     [maxLevel |-> 220, hp |-> 546, dmg |-> 81],
     [maxLevel |-> 230, hp |-> 624, dmg |-> 90],
     [maxLevel |-> 240, hp |-> 702, dmg |-> 100],
     [maxLevel |-> 250, hp |-> 792, dmg |-> 112] >>

\* STAT_INCREMENTS.find(inc => i < inc.maxLevel) || last entry
StatIncrementFor(i) ==
  LET hits == {k \in 1..Len(STAT_INCREMENTS) : i < STAT_INCREMENTS[k].maxLevel}
  IN  IF hits = {} THEN STAT_INCREMENTS[Len(STAT_INCREMENTS)]
      ELSE STAT_INCREMENTS[CHOOSE k \in hits : \A j \in hits : k <= j]

RECURSIVE StatsLoop(_, _, _, _)
\* the iterations from i on that find the increment inc, as i does, taken in
\* one step: up to inc.maxLevel, or all that are left beyond the table
SameIncrement(i, targetLevel, health, damage, inc) ==
  LET n == IF i < inc.maxLevel /\ inc.maxLevel < targetLevel
           THEN inc.maxLevel - i
           ELSE targetLevel - i
  IN  StatsLoop(i + n, targetLevel, health + n * inc.hp, damage + n * inc.dmg)

\* for (let i = 1; i < targetLevel; i++)
StatsLoop(i, targetLevel, health, damage) ==
  IF i < targetLevel
  THEN SameIncrement(i, targetLevel, health, damage, StatIncrementFor(i))
  ELSE [health |-> health, damage |-> damage]

\* health and damage in whole points
getStatsForLevel(targetLevel) == StatsLoop(1, targetLevel, 10, 1)

bandone ==
  << 5, 10, 20, 30, 40, 60, 75, 120, 160, 200,
     2400, 3000, 3750, 4500, 5100, 5850, 6700, 7800, 9000, 10500,
     12000, 14000, 16500, 19500, 20400, 21600, 23800, 25200, 28800,
     30000, 32000, 33600, 36000, 37800, 39600, 41600, 43200, 44000,
     45600, 47800, 49500, 50400, 52800, 54600, 57600, 62400, 67800,
     71800, 75600, 79200, 84000, 89600, 92400, 97200, 103500 >>

hundred == 7560
onezeroone == 75600

\* the last level before simLevel at which `start` is taken up: the end of the
\* previous band of ten, or level 101 whose override the rest of its band adds to
XpAnchor(simLevel) ==
  IF simLevel >= 102 /\ simLevel <= 110 THEN 101
  ELSE ((simLevel - 1) \div 10) * 10

\* value of `start` after the loop body has run for simLevel: `start += one`
\* once per level since the anchor, all within one band
RECURSIVE XpStart(_)
XpStart(simLevel) ==
  IF simLevel <= 0 THEN 0
  ELSE IF simLevel = 100 THEN hundred
  ELSE IF simLevel = 101 THEN onezeroone
  ELSE XpStart(XpAnchor(simLevel))
         + (simLevel - XpAnchor(simLevel)) * bandone[((simLevel - 1) \div 10) + 1]

\* getXpRequiredForLevel answering 0 beyond the table
getXpRequiredForLevel_table(currentLevel) ==
  IF currentLevel >= 1 /\ currentLevel <= 10 * Len(bandone)
  THEN XpStart(currentLevel)
  ELSE 0

\* XP (whole points) needed to advance from currentLevel
getXpRequiredForLevel(currentLevel) ==
  IF currentLevel >= 1 /\ currentLevel <= 10 * Len(bandone)
  THEN XpStart(currentLevel)
  ELSE XpStart(10 * Len(bandone)) + 10000

(***************************************************************************)
(* lib/game/inventory.ts                                                   *)
(***************************************************************************)
MaterialItemId ==
  {"echoes", "valves", "heavy_valves", "reinforced_valves", "infused_valves",
   "trombone_slides", "brass_ingots", "reinforced_brass_ingots",
   "infused_brass_ingots", "moonlight_azarite", "valve_oil", "cork_grease",
   "sheet_music_fragments"}

\* crit and def in 1/PctScale, speed multiplier in 1/100, value = parseFloat(strength) * 10
REED_DATA ==
  << [strength |-> "1.0", crit |-> 0, def |-> 0, speed |-> 100, value |-> 10,
      recipe |-> <<[itemId |-> "echoes", quantity |-> 5]>>],
     [strength |-> "1.5", crit |-> 125, def |-> 375, speed |-> 102, value |-> 15,
      recipe |-> <<[itemId |-> "echoes", quantity |-> 8]>>],
     [strength |-> "2.0", crit |-> 250, def |-> 750, speed |-> 104, value |-> 20,
      recipe |-> <<[itemId |-> "echoes", quantity |-> 12]>>],
     [strength |-> "2.5", crit |-> 375, def |-> 1125, speed |-> 106, value |-> 25,
      recipe |-> <<[itemId |-> "2.0", quantity |-> 10],
                   [itemId |-> "echoes", quantity |-> 10],
                   [itemId |-> "valves", quantity |-> 5]>>],
     [strength |-> "3.0", crit |-> 500, def |-> 1500, speed |-> 108, value |-> 30,
      recipe |-> <<[itemId |-> "2.5", quantity |-> 10],
                   [itemId |-> "echoes", quantity |-> 14],
                   [itemId |-> "valves", quantity |-> 7],
                   [itemId |-> "trombone_slides", quantity |-> 1]>>],
     [strength |-> "3.5", crit |-> 625, def |-> 1875, speed |-> 110, value |-> 35,
      recipe |-> <<[itemId |-> "3.0", quantity |-> 10],
                   [itemId |-> "echoes", quantity |-> 20],
                   [itemId |-> "valves", quantity |-> 12],
                   [itemId |-> "trombone_slides", quantity |-> 2]>>],
     [strength |-> "4.0", crit |-> 750, def |-> 2250, speed |-> 112, value |-> 40,
      recipe |-> <<[itemId |-> "3.5", quantity |-> 10],
                   [itemId |-> "echoes", quantity |-> 24],
                   [itemId |-> "valves", quantity |-> 16],
                   [itemId |-> "trombone_slides", quantity |-> 2],
                   [itemId |-> "valve_oil", quantity |-> 1]>>],
     [strength |-> "4.5", crit |-> 875, def |-> 2625, speed |-> 114, value |-> 45,
      recipe |-> <<[itemId |-> "4.0", quantity |-> 10],
                   [itemId |-> "echoes", quantity |-> 36],
                   [itemId |-> "valves", quantity |-> 24],
                   [itemId |-> "trombone_slides", quantity |-> 3],
                   [itemId |-> "valve_oil", quantity |-> 2]>>],
     [strength |-> "5.0", crit |-> 1000, def |-> 3000, speed |-> 116, value |-> 50,
      recipe |-> <<[itemId |-> "4.5", quantity |-> 10],
                   [itemId |-> "echoes", quantity |-> 40],
                   [itemId |-> "valves", quantity |-> 32],
                   [itemId |-> "trombone_slides", quantity |-> 4],
                   [itemId |-> "valve_oil", quantity |-> 3]>>] >>

ReedStrength == {REED_DATA[k].strength : k \in 1..Len(REED_DATA)}

ReedEntry(strength) ==
  REED_DATA[CHOOSE k \in 1..Len(REED_DATA) : REED_DATA[k].strength = strength]

REED_MULTIPLIERS ==
  [s \in ReedStrength |->
     [crit |-> ReedEntry(s).crit, def |-> ReedEntry(s).def,
      speed |-> ReedEntry(s).speed]]

INITIAL_INVENTORY ==
  [materials |-> [m \in MaterialItemId |-> 0],
   reeds |-> [r \in ReedStrength |-> 0],
   accessories |-> <<>>]

CRAFTING_RECIPES ==
  << [id |-> "reed_1.5_upgrade", outputId |-> "1.5", outputQuantity |-> 10,
      ingredients |-> <<[itemId |-> "1.0", quantity |-> 10],
                        [itemId |-> "echoes", quantity |-> 3]>>],
     [id |-> "reed_2.0_upgrade", outputId |-> "2.0", outputQuantity |-> 10,
      ingredients |-> <<[itemId |-> "1.5", quantity |-> 10],
                        [itemId |-> "echoes", quantity |-> 4]>>] >>

ALL_RECIPES ==
  [k \in 1..Len(REED_DATA) |->
     [id |-> "reed_" \o REED_DATA[k].strength \o "_craft",
      outputId |-> REED_DATA[k].strength,
      outputQuantity |-> 10,
      ingredients |-> REED_DATA[k].recipe]] \o CRAFTING_RECIPES

(***************************************************************************)
(* lib/store/playerStore.ts: constants and initial state                   *)
(***************************************************************************)
null == "null"
TimeUnit == 500
\* COMBO_WINDOW = 7000 ms, in time units
COMBO_WINDOW == 14
\* SAVE_COOLDOWN = 2.0 s, in time units
SAVE_COOLDOWN == 4
\* respawn invincibility, 2000 ms, in time units
INVINCIBLE_TIME == 4
\* baseSpeed = 4.5, in 1/100
baseSpeed == 450
\* reedDurability of a freshly equipped reed, seconds
FULL_DURABILITY == 600
SPAWN_POINT == <<0, 15, 0>>

\* Number(x.toFixed(2)) for x given in 1/100000: round half up to 1/100
ToFixed2(x100000) == (x100000 + 500) \div 1000

calculateStats(level, reed) ==
  LET base == getStatsForLevel(level) IN
  IF reed = null
  THEN [health |-> base.health * HpScale,
        damage |-> base.damage,
        speed |-> baseSpeed,
        basicAttackDamage |-> base.damage,
        critChance |-> 0,
        defense |-> 0]
  ELSE LET stats == REED_MULTIPLIERS[reed] IN
       [health |-> base.health * HpScale,
        damage |-> base.damage,
        basicAttackDamage |-> base.damage,
        speed |-> ToFixed2(baseSpeed * stats.speed * 10),
        critChance |-> stats.crit,
        defense |-> stats.def]

initialLevel == 1

INITIAL_STATS ==
  [level |-> initialLevel,
   health |-> getStatsForLevel(initialLevel).health * HpScale,
   maxHealth |-> getStatsForLevel(initialLevel).health * HpScale,
   damage |-> getStatsForLevel(initialLevel).damage,
   basicAttackDamage |-> getStatsForLevel(initialLevel).damage,
   speed |-> baseSpeed,
   critChance |-> 0,
   defense |-> 0,
   xp |-> 0,
   maxXp |-> getXpRequiredForLevel(initialLevel) * XpScale,
   echoes |-> 0,
   equippedReed |-> null,
   reedDurability |-> 0,
   embouchure |-> 1,
   embouchureXp |-> 0,
   position |-> SPAWN_POINT]

\* attackCooldown: 0.5 (seconds), in time units
ATTACK_COOLDOWN == 1

\* Object.assign({}, a, b)
Merge(a, b) ==
  [k \in DOMAIN a \cup DOMAIN b |-> IF k \in DOMAIN b THEN b[k] ELSE a[k]]

InitialPlayer ==
  Merge(INITIAL_STATS,
        [inventory |-> INITIAL_INVENTORY,
         isAttacking |-> FALSE,
         attackProgress |-> 0,
         attackCooldown |-> ATTACK_COOLDOWN,
         lastAttackTime |-> 0,
         isInvincible |-> FALSE,
         isLongToneActive |-> FALSE,
         longToneCooldown |-> 0,
         tempo |-> 0,
         tempoRating |-> "F",
         lastKillTime |-> 0,
         lastMoveTime |-> StartTime,
         speedModifier |-> 100])

(***************************************************************************)
(* components/game/SaveManager.tsx and the zustand store's set()           *)
(***************************************************************************)
\* the saveData object built by handleSave (and by PauseMenu.handleQuit)
SaveData(p) ==
  [level |-> p.level,
   health |-> p.health,
   xp |-> p.xp,
   echoes |-> p.echoes,
   position |-> [x |-> p.position[1], y |-> p.position[2], z |-> p.position[3]],
   inventory |-> p.inventory,
   equippedReed |-> p.equippedReed,
   reedDurability |-> p.reedDurability,
   embouchure |-> p.embouchure,
   embouchureXp |-> p.embouchureXp]

\* handleSave at time t on store state p; w carries lastSaveTime and saveQueue
handleSave(w, p, t) ==
  IF t - w.lastSaveTime < SAVE_COOLDOWN
  THEN w
  ELSE [w EXCEPT !.lastSaveTime = t,
                 !.saveQueue = Append(w.saveQueue, SaveData(p))]

\* the six subscribeWithSelector subscriptions: does any selected slice differ
\* (Object.is)?  inventoryReplaced: the update put a new inventory object in the store.
SliceChanged(prev, next, inventoryReplaced) ==
  \/ prev.xp # next.xp
  \/ prev.level # next.level
  \/ prev.echoes # next.echoes
  \/ inventoryReplaced
  \/ prev.embouchure # next.embouchure
  \/ prev.equippedReed # next.equippedReed

\* the store now holds next: run the listeners synchronously
Notify(w, next, inventoryReplaced) ==
  LET w1 == [w EXCEPT !.player = next]
  IN  IF w.mounted /\ SliceChanged(w.player, next, inventoryReplaced)
      THEN handleSave(w1, next, w.now)
      ELSE w1

\* set(partial): merge into the store, then notify
Set(w, partial) ==
  Notify(w, Merge(w.player, partial), "inventory" \in DOMAIN partial)

(***************************************************************************)
(* lib/store/playerStore.ts: the store's operations, as functions on the   *)
(* "world" w = store state + what the call can reach (game store, timers,  *)
(* the SaveManager's refs).  w.ret is the call's return value, w.deaths    *)
(* counts the death side effects (sound + 'gameOver') the call triggered.  *)
(***************************************************************************)
addXp(w, amount) ==
  LET state == w.player
      xp0 == state.xp + amount
  IN  IF xp0 >= state.maxXp
      THEN LET level == state.level + 1
               newStats == calculateStats(level, state.equippedReed)
               newMaxXp == getXpRequiredForLevel(level) * XpScale
           IN  Set(w, [xp |-> xp0 - state.maxXp,
                       maxXp |-> newMaxXp,
                       level |-> level,
                       health |-> newStats.health,
                       maxHealth |-> newStats.health,
                       damage |-> newStats.damage,
                       basicAttackDamage |-> newStats.basicAttackDamage,
                       speed |-> newStats.speed,
                       critChance |-> newStats.critChance,
                       defense |-> newStats.defense])
      ELSE Set(w, [xp |-> xp0,
                   maxXp |-> state.maxXp,
                   level |-> state.level,
                   health |-> state.health,
                   maxHealth |-> state.maxHealth,
                   damage |-> state.damage,
                   basicAttackDamage |-> state.basicAttackDamage,
                   speed |-> state.speed,
                   critChance |-> state.critChance,
                   defense |-> state.defense])

\* attack that looks only at isAttacking, not at the cooldown
attack_uncooled(w) ==
  LET state == w.player IN
  IF state.isAttacking THEN w
  ELSE Set(w, [isAttacking |-> TRUE, attackProgress |-> 0, lastAttackTime |-> w.now])

attack(w) ==
  LET state == w.player IN
  IF state.isAttacking \/ w.now - state.lastAttackTime < state.attackCooldown THEN w
  ELSE Set(w, [isAttacking |-> TRUE, attackProgress |-> 0, lastAttackTime |-> w.now])

\* stopAttack rewinding the animation only
stopAttack_rewind(w) == Set(w, [attackProgress |-> 0])

stopAttack(w) == Set(w, [isAttacking |-> FALSE, attackProgress |-> 0])

\* the death side effect: AudioManager.play(death sound), setGameState('gameOver')
DeathSideEffect(w) ==
  [w EXCEPT !.gameState = "gameOver", !.deaths = w.deaths + 1]

\* takeDamage forgetting the defense reduction
takeDamage_undefended(w, amount) ==
  LET state == w.player IN
  IF state.isInvincible THEN Set(w, <<>>)
  ELSE LET newHealth == Max(0, state.health - amount)
           w1 == IF newHealth <= 0 THEN DeathSideEffect(w) ELSE w
       IN  Set(w1, [health |-> newHealth])

takeDamage(w, amount) ==
  LET state == w.player IN
  IF state.isInvincible THEN Set(w, <<>>)
  ELSE LET reducedAmount == Max(0, (amount * (PctScale - state.defense)) \div PctScale)
           newHealth == Max(0, state.health - reducedAmount)
           w1 == IF newHealth <= 0 THEN DeathSideEffect(w) ELSE w
       IN  Set(w1, [health |-> newHealth])

heal(w, amount) ==
  Set(w, [health |-> Min(w.player.maxHealth, w.player.health + amount)])

levelUp(w) ==
  LET state == w.player
      newLevel == state.level + 1
      newStats == calculateStats(newLevel, state.equippedReed)
  IN  Set(w, [level |-> newLevel,
              maxHealth |-> newStats.health,
              health |-> newStats.health,
              damage |-> newStats.damage,
              speed |-> newStats.speed])

resetPlayer(w) ==
  Set(w, Merge(INITIAL_STATS,
               [position |-> SPAWN_POINT,
                inventory |-> INITIAL_INVENTORY,
                health |-> INITIAL_STATS.maxHealth,
                isAttacking |-> FALSE,
                attackProgress |-> 0,
                lastAttackTime |-> 0,
                isInvincible |-> FALSE,
                isLongToneActive |-> FALSE,
                longToneCooldown |-> 0,
                equippedReed |-> null]))

collectEchoes(w, amount) ==
  LET state == w.player IN
  Set(w, [echoes |-> state.echoes + amount,
          inventory |-> [state.inventory EXCEPT
                           !.materials.echoes = state.inventory.materials.echoes + amount]])

\* setTimeout(callback, delay): one more outstanding timer; arg is what the
\* callback's closure captured
SetTimeout(w, kind, delay, arg) ==
  [w EXCEPT !.timers = w.timers \cup {[kind |-> kind, at |-> w.now + delay, arg |-> arg]}]

\* respawn starting the level's XP over
respawn_losing(w) ==
  LET w1 == Set(w, [health |-> w.player.maxHealth,
                    xp |-> 0,
                    isAttacking |-> FALSE,
                    isLongToneActive |-> FALSE,
                    isInvincible |-> TRUE,
                    position |-> SPAWN_POINT,
                    speedModifier |-> 100,
                    tempo |-> 0,
                    tempoRating |-> "F",
                    lastKillTime |-> 0])
      w2 == SetTimeout(w1, "invincibilityEnd", INVINCIBLE_TIME, 0)
  IN  [w2 EXCEPT !.gameState = "playing"]

respawn(w) ==
  LET w1 == Set(w, [health |-> w.player.maxHealth,
                    isAttacking |-> FALSE,
                    isLongToneActive |-> FALSE,
                    isInvincible |-> TRUE,
                    position |-> SPAWN_POINT,
                    speedModifier |-> 100,
                    tempo |-> 0,
                    tempoRating |-> "F",
                    lastKillTime |-> 0])
      w2 == SetTimeout(w1, "invincibilityEnd", INVINCIBLE_TIME, 0)
  IN  [w2 EXCEPT !.gameState = "playing"]

\* the setTimeout callback of respawn
invincibilityEnd(w) == Set(w, [isInvincible |-> FALSE])

TempoRating(newTempo) ==
  IF newTempo >= 101 THEN "Z"
  ELSE IF newTempo >= 71 THEN "SSS"
  ELSE IF newTempo >= 41 THEN "SS"
  ELSE IF newTempo >= 21 THEN "S"
  ELSE IF newTempo >= 11 THEN "A"
  ELSE IF newTempo >= 6 THEN "B"
  ELSE IF newTempo >= 3 THEN "C"
  ELSE IF newTempo >= 1 THEN "D"
  ELSE "F"

\* finalXp = (1 + (enemyLevel - 1) * 0.2) * (1 + floor(newTempo / 2) * 0.1), in 1/XpScale
KillXp(enemyLevel, newTempo) ==
  ((5 + (enemyLevel - 1)) * (10 + (newTempo \div 2)) * XpScale) \div 50

\* registerKill closing the window one instant early
registerKill_strict(w, enemyLevel) ==
  LET state == w.player
      newTempo == IF state.lastKillTime > 0 /\ w.now - state.lastKillTime < COMBO_WINDOW
                  THEN state.tempo + 1
                  ELSE 1
      w1 == Set(w, [tempo |-> newTempo,
                    tempoRating |-> TempoRating(newTempo),
                    lastKillTime |-> w.now])
  IN  addXp(w1, KillXp(enemyLevel, newTempo))

\* registerKill with a window of 4 s
registerKill_short(w, enemyLevel) ==
  LET state == w.player
      newTempo == IF state.lastKillTime > 0 /\ w.now - state.lastKillTime <= 8
                  THEN state.tempo + 1
                  ELSE 1
      w1 == Set(w, [tempo |-> newTempo,
                    tempoRating |-> TempoRating(newTempo),
                    lastKillTime |-> w.now])
  IN  addXp(w1, KillXp(enemyLevel, newTempo))

\* registerKill taking the bonus from the streak before the advance
registerKill_stale(w, enemyLevel) ==
  LET state == w.player
      newTempo == IF state.lastKillTime > 0 /\ w.now - state.lastKillTime <= COMBO_WINDOW
                  THEN state.tempo + 1
                  ELSE 1
      w1 == Set(w, [tempo |-> newTempo,
                    tempoRating |-> TempoRating(newTempo),
                    lastKillTime |-> w.now])
  IN  addXp(w1, KillXp(enemyLevel, state.tempo))

registerKill(w, enemyLevel) ==
  LET state == w.player
      newTempo == IF state.lastKillTime > 0 /\ w.now - state.lastKillTime <= COMBO_WINDOW
                  THEN state.tempo + 1
                  ELSE 1
      w1 == Set(w, [tempo |-> newTempo,
                    tempoRating |-> TempoRating(newTempo),
                    lastKillTime |-> w.now])
  IN  addXp(w1, KillXp(enemyLevel, newTempo))

addMaterial(w, itemId, quantity) ==
  LET state == w.player IN
  Set(w, [inventory |-> [state.inventory EXCEPT
                           !.materials[itemId] = state.inventory.materials[itemId] + quantity]])

addReed(w, strength, quantity) ==
  LET state == w.player IN
  Set(w, [inventory |-> [state.inventory EXCEPT
                           !.reeds[strength] = state.inventory.reeds[strength] + quantity]])

\* removeMaterial refusing also the request for exactly the quantity in stock
removeMaterial_strict(w, itemId, quantity) ==
  LET state == w.player
      currentQty == state.inventory.materials[itemId]
  IN  IF currentQty <= quantity THEN [w EXCEPT !.ret = "false"]
      ELSE [Set(w, [inventory |-> [state.inventory EXCEPT
                                     !.materials[itemId] = currentQty - quantity]])
              EXCEPT !.ret = "true"]

removeMaterial(w, itemId, quantity) ==
  LET state == w.player
      currentQty == state.inventory.materials[itemId]
  IN  IF currentQty < quantity THEN [w EXCEPT !.ret = "false"]
      ELSE [Set(w, [inventory |-> [state.inventory EXCEPT
                                     !.materials[itemId] = currentQty - quantity]])
              EXCEPT !.ret = "true"]

removeReed(w, strength, quantity) ==
  LET state == w.player
      currentQty == state.inventory.reeds[strength]
  IN  IF currentQty < quantity THEN [w EXCEPT !.ret = "false"]
      ELSE [Set(w, [inventory |-> [state.inventory EXCEPT
                                     !.reeds[strength] = currentQty - quantity]])
              EXCEPT !.ret = "true"]

\* Math.max(1, Math.floor(newMax * (health / maxHealth))), all in 1/HpScale
KeepHpRatio(newMaxHealth, health, maxHealth) ==
  IF maxHealth > 0
  THEN Max(1 * HpScale, ((newMaxHealth * health) \div (HpScale * maxHealth)) * HpScale)
  ELSE Max(1 * HpScale, (newMaxHealth \div HpScale) * HpScale)

equipReed(w, strength) ==
  LET state == w.player IN
  IF strength = null
  THEN Set(w, Merge([equippedReed |-> null, reedDurability |-> 0],
                    calculateStats(state.level, null)))
  ELSE IF state.inventory.reeds[strength] <= 0 THEN Set(w, <<>>)
  ELSE LET newStats == calculateStats(state.level, strength) IN
       Set(w, [equippedReed |-> strength,
               reedDurability |-> FULL_DURABILITY,
               inventory |-> [state.inventory EXCEPT
                                !.reeds[strength] = Max(0, state.inventory.reeds[strength] - 1)],
               maxHealth |-> newStats.health,
               health |-> KeepHpRatio(newStats.health, state.health, state.maxHealth),
               damage |-> newStats.damage,
               speed |-> newStats.speed,
               critChance |-> newStats.critChance,
               defense |-> newStats.defense])

\* the partial returned by unequipReed and by a durability break
\* unequipReed keeping the reed's speed
UnequipPartial_fast(state) ==
  LET newStats == calculateStats(state.level, null) IN
  [equippedReed |-> null,
   reedDurability |-> 0,
   maxHealth |-> newStats.health,
   health |-> KeepHpRatio(newStats.health, state.health, state.maxHealth),
   damage |-> newStats.damage,
   speed |-> state.speed,
   critChance |-> newStats.critChance,
   defense |-> newStats.defense]

UnequipPartial(state) ==
  LET newStats == calculateStats(state.level, null) IN
  [equippedReed |-> null,
   reedDurability |-> 0,
   maxHealth |-> newStats.health,
   health |-> KeepHpRatio(newStats.health, state.health, state.maxHealth),
   damage |-> newStats.damage,
   speed |-> newStats.speed,
   critChance |-> newStats.critChance,
   defense |-> newStats.defense]

unequipReed(w) ==
  IF w.player.equippedReed = null THEN Set(w, <<>>)
  ELSE Set(w, UnequipPartial(w.player))

tickReedDurability(w, dt) ==
  LET state == w.player IN
  IF state.equippedReed = null \/ state.reedDurability <= 0 THEN Set(w, <<>>)
  ELSE LET newDurability == state.reedDurability - dt IN
       IF newDurability <= 0 THEN Set(w, UnequipPartial(state))
       ELSE Set(w, [reedDurability |-> newDurability])

\* ALL_RECIPES.find(r => r.id === recipeId): index of the recipe, 0 if none
FindRecipe(recipeId) ==
  LET hits == {k \in 1..Len(ALL_RECIPES) : ALL_RECIPES[k].id = recipeId}
  IN  IF hits = {} THEN 0 ELSE CHOOSE k \in hits : \A j \in hits : k <= j

\* the quantity the verification loop finds for an ingredient
CurrentQty(state, itemId) ==
  IF itemId \in DOMAIN state.inventory.materials
  THEN state.inventory.materials[itemId]
  ELSE IF itemId \in DOMAIN state.inventory.reeds
  THEN state.inventory.reeds[itemId]
  ELSE IF itemId = "echoes"
  THEN state.echoes
  ELSE 0

\* the verification loop: TRUE iff no ingredient makes it return false
IngredientsMet(state, recipe) ==
  \A i \in 1..Len(recipe.ingredients) :
     ~(CurrentQty(state, recipe.ingredients[i].itemId) < recipe.ingredients[i].quantity)

\* "First pass: Deduct", ingredient i onwards; acc = [materials, reeds, echoes]
RECURSIVE Deduct(_, _, _)
Deduct(ingredients, i, acc) ==
  IF i > Len(ingredients) THEN acc
  ELSE LET ing == ingredients[i] IN
       IF ing.itemId = "echoes"
       THEN Deduct(ingredients, i + 1,
                   [acc EXCEPT !.echoes = acc.echoes - ing.quantity,
                               !.materials.echoes = acc.echoes - ing.quantity])
       ELSE IF ing.itemId \in DOMAIN acc.materials
       THEN Deduct(ingredients, i + 1,
                   [acc EXCEPT !.materials[ing.itemId] = @ - ing.quantity])
       ELSE IF ing.itemId \in DOMAIN acc.reeds
       THEN Deduct(ingredients, i + 1,
                   [acc EXCEPT !.reeds[ing.itemId] = @ - ing.quantity])
       ELSE Deduct(ingredients, i + 1, acc)

\* the reward of the comment in craftRecipe: 50 * strength
CraftXpReward_linear(outputId) ==
  (5 * ReedEntry(outputId).value) * XpScale

\* Math.floor((parseFloat(outputId) ** 2) * 10), in 1/XpScale
CraftXpReward(outputId) ==
  ((ReedEntry(outputId).value * ReedEntry(outputId).value) \div 10) * XpScale

craftRecipe(w, recipeId) ==
  LET state == w.player
      k == FindRecipe(recipeId)
  IN  IF k = 0 THEN [w EXCEPT !.ret = "false"]
      ELSE LET recipe == ALL_RECIPES[k] IN
      IF ~IngredientsMet(state, recipe) THEN [w EXCEPT !.ret = "false"]
      ELSE LET acc == Deduct(recipe.ingredients, 1,
                             [materials |-> state.inventory.materials,
                              reeds |-> state.inventory.reeds,
                              echoes |-> state.echoes])
               reedOut == recipe.outputId \in DOMAIN acc.reeds
               matOut == ~reedOut /\ recipe.outputId \in DOMAIN acc.materials
               newReeds == IF reedOut
                           THEN [acc.reeds EXCEPT ![recipe.outputId] = @ + recipe.outputQuantity]
                           ELSE acc.reeds
               newMaterials == IF matOut
                               THEN [acc.materials EXCEPT ![recipe.outputId] = @ + recipe.outputQuantity]
                               ELSE acc.materials
               \* get().addXp(xpReward) runs inside the updater, before the merge
               w1 == IF reedOut THEN addXp(w, CraftXpReward(recipe.outputId)) ELSE w
           IN  [Set(w1, [echoes |-> acc.echoes,
                         inventory |-> [state.inventory EXCEPT
                                          !.materials = newMaterials,
                                          !.reeds = newReeds]])
                  EXCEPT !.ret = "true"]

\* if (saved.k): the key is present and its value is truthy
Truthy(saved, k) == k \in DOMAIN saved /\ saved[k] # 0

\* "Hydrate stats": level, health, xp, echoes
HydrateStats(newStats, saved) ==
  [newStats EXCEPT
     !.level = IF Truthy(saved, "level") THEN saved.level ELSE @,
     !.health = IF Truthy(saved, "health") THEN saved.health ELSE @,
     !.xp = IF Truthy(saved, "xp") THEN saved.xp ELSE @,
     !.echoes = IF Truthy(saved, "echoes") THEN saved.echoes ELSE @]

\* newStats with the six derived stats taken from derived
WithDerived(newStats, derived) ==
  [newStats EXCEPT !.maxHealth = derived.health,
                   !.damage = derived.damage,
                   !.basicAttackDamage = derived.basicAttackDamage,
                   !.speed = derived.speed,
                   !.critChance = derived.critChance,
                   !.defense = derived.defense]

\* "Recalculate derived stats to be safe"
RecalculateForLevel(newStats, saved) ==
  IF Truthy(saved, "level")
  THEN [WithDerived(newStats, calculateStats(saved.level, newStats.equippedReed))
          EXCEPT !.maxXp = getXpRequiredForLevel(saved.level) * XpScale]
  ELSE newStats

HydrateReedState(newStats, saved) ==
  [newStats EXCEPT
     !.reedDurability = IF Truthy(saved, "reedDurability") THEN saved.reedDurability ELSE @,
     !.embouchure = IF Truthy(saved, "embouchure") THEN saved.embouchure ELSE @,
     !.embouchureXp = IF Truthy(saved, "embouchureXp") THEN saved.embouchureXp ELSE @]

\* "If loading saved equipped reed, recalculate stats"
HydrateEquippedReed(newStats, saved) ==
  IF "equippedReed" \in DOMAIN saved
  THEN [WithDerived(newStats, calculateStats(newStats.level, saved.equippedReed))
          EXCEPT !.equippedReed = saved.equippedReed]
  ELSE newStats

HydrateMaxHealthAndPosition(newStats, saved) ==
  [newStats EXCEPT
     !.maxHealth = IF Truthy(saved, "maxHealth") THEN saved.maxHealth ELSE @,
     !.position = IF "position" \in DOMAIN saved
                  THEN <<saved.position.x, saved.position.y, saved.position.z>>
                  ELSE @]

\* ...saved.inventory.materials, ...(saved.inventory.reeds || {}): a category
\* the snapshot lacks contributes nothing
Category(inv, k) == IF k \in DOMAIN inv THEN inv[k] ELSE <<>>

\* loadState taking the snapshot's inventory as it is
HydrateInventory_plain(newStats, saved) ==
  IF "inventory" \in DOMAIN saved
  THEN [newStats EXCEPT !.inventory =
          [materials |-> Category(saved.inventory, "materials"),
           reeds |-> Category(saved.inventory, "reeds"),
           accessories |-> Category(saved.inventory, "accessories")]]
  ELSE newStats

\* "Restore inventory if available", a deep merge over INITIAL_INVENTORY
HydrateInventory(newStats, saved) ==
  IF "inventory" \in DOMAIN saved
  THEN [newStats EXCEPT !.inventory =
          [materials |-> Merge(INITIAL_INVENTORY.materials, Category(saved.inventory, "materials")),
           reeds |-> Merge(INITIAL_INVENTORY.reeds, Category(saved.inventory, "reeds")),
           accessories |-> Merge(INITIAL_INVENTORY.accessories,
                                 Category(saved.inventory, "accessories"))]]
  ELSE newStats

\* "Sync echoes to inventory for display"
SyncEchoes(newStats) ==
  [newStats EXCEPT !.inventory.materials.echoes = newStats.echoes]

\* without saved.inventory the materials are replaced inside the old inventory
\* object, so the inventory slice keeps its identity
loadState(w, saved) ==
  Notify(w,
         SyncEchoes(
           HydrateInventory(
             HydrateMaxHealthAndPosition(
               HydrateEquippedReed(
                 HydrateReedState(
                   RecalculateForLevel(
                     HydrateStats(w.player, saved), saved), saved), saved), saved), saved)),
         "inventory" \in DOMAIN saved)

(***************************************************************************)
(* lib/db/index.ts, PauseMenu, MainMenu: the single save slot              *)
(***************************************************************************)
NoSave == <<>>

(***************************************************************************)
(* State machine                                                           *)
(***************************************************************************)
\* the world the next call runs in
Cur ==
  [player |-> player,
   gameState |-> gameState,
   now |-> now,
   timers |-> timers,
   mounted |-> saveManagerMounted,
   lastSaveTime |-> lastSaveTime,
   saveQueue |-> saveQueue,
   ret |-> "void",
   deaths |-> 0]

\* the explored runs stay within the bounds
InBounds(p) ==
  /\ p.level <= MaxLevel
  /\ p.echoes <= MaxStock
  /\ p.tempo <= MaxTempo
  /\ \A m \in DOMAIN p.inventory.materials : p.inventory.materials[m] <= MaxStock
  /\ \A r \in DOMAIN p.inventory.reeds : p.inventory.reeds[r] <= MaxStock

\* the world w and the save slot db become the next state
Publish(op, w, db) ==
  /\ player' = w.player
  /\ gameState' = w.gameState
  /\ timers' = w.timers
  /\ lastSaveTime' = w.lastSaveTime
  /\ saveQueue' = w.saveQueue
  /\ dbSave' = db
  /\ out' = [op |-> op, ret |-> w.ret, deaths |-> w.deaths,
             saved |-> Len(w.saveQueue) > Len(saveQueue)]
  /\ UNCHANGED <<now, saveManagerMounted, split>>

\* the step op is over, leaving the world w and the save slot db
Commit(op, w, db) ==
  /\ InBounds(w.player)
  /\ Publish(op, w, db)

\* the store call op has returned, leaving the world w
Done(op, w) == Commit(op, w, dbSave)

\* no split-reward comparison is running
NoSplit == [on |-> FALSE, a |-> 0, b |-> 0, parts |-> 0, wholeDone |-> FALSE, twin |-> <<>>]
NoOut == [op |-> "init", ret |-> "void", deaths |-> 0, saved |-> FALSE]

Init ==
  /\ player = InitialPlayer
  /\ gameState = "playing"
  /\ now = StartTime
  /\ timers = {}
  /\ saveManagerMounted = FALSE
  /\ lastSaveTime = 0
  /\ saveQueue = <<>>
  /\ dbSave = NoSave
  /\ out = NoOut
  /\ split = NoSplit

\* inputs of the explored calls
XpAmounts == {1 * XpScale, 20 * XpScale}
\* Enemy (part_005) xpValue of the kills explored under the persistence layer
KillXpAmounts == {4 * XpScale}
EnemyLevels == {21}
DamageAmounts == {10 * HpScale}
LethalAmounts == {100 * HpScale}
HealAmounts == {8 * HpScale}
EchoAmounts == {5}
MaterialInputs == {"echoes", "valves"}
ReedInputs == {"1.5"}
Quantities == {5}
TickSeconds == {300}
\* the recipes within reach of MaxStock, one beyond it, and an unknown id
RecipeIds ==
  {"reed_1.0_craft", "reed_1.5_craft", "reed_2.0_craft", "reed_2.5_craft",
   "reed_1.5_upgrade", "reed_2.0_upgrade", "no_such_recipe"}

AddXpOf(amounts) == \E amount \in amounts : Done("addXp", addXp(Cur, amount))
AddXp == AddXpOf(XpAmounts)
TakeDamage == \E amount \in DamageAmounts : Done("takeDamage", takeDamage(Cur, amount))
Heal == \E amount \in HealAmounts : Done("heal", heal(Cur, amount))
LevelUp == Done("levelUp", levelUp(Cur))
ResetPlayer == Done("resetPlayer", resetPlayer(Cur))
CollectEchoes == \E amount \in EchoAmounts : Done("collectEchoes", collectEchoes(Cur, amount))
RegisterKill == \E enemyLevel \in EnemyLevels : Done("registerKill", registerKill(Cur, enemyLevel))
AddMaterial ==
  \E itemId \in MaterialInputs, quantity \in Quantities :
     Done("addMaterial", addMaterial(Cur, itemId, quantity))
AddReed ==
  \E strength \in ReedInputs, quantity \in Quantities :
     Done("addReed", addReed(Cur, strength, quantity))
RemoveMaterial ==
  \E itemId \in MaterialInputs, quantity \in Quantities :
     Done("removeMaterial", removeMaterial(Cur, itemId, quantity))
RemoveReed ==
  \E strength \in ReedInputs, quantity \in Quantities :
     Done("removeReed", removeReed(Cur, strength, quantity))
EquipReed == \E strength \in ReedInputs \cup {null} : Done("equipReed", equipReed(Cur, strength))
UnequipReed == Done("unequipReed", unequipReed(Cur))
TickReedDurability == \E dt \in TickSeconds : Done("tickReedDurability", tickReedDurability(Cur, dt))
CraftRecipe == \E recipeId \in RecipeIds : Done("craftRecipe", craftRecipe(Cur, recipeId))

\* progression and damage
Next ==
  \/ AddXp
  \/ RegisterKill
  \/ LevelUp
  \/ TakeDamage
  \/ Heal
  \/ ResetPlayer

Spec == Init /\ [][Next]_vars

\* inventory ledger and crafting
NextInv ==
  \/ CollectEchoes
  \/ AddMaterial
  \/ AddReed
  \/ RemoveMaterial
  \/ RemoveReed
  \/ EquipReed
  \/ CraftRecipe
  \/ ResetPlayer

SpecInv == Init /\ [][NextInv]_vars

\* the stacks alone: pick-ups and removals
NextLedger ==
  \/ CollectEchoes
  \/ AddMaterial
  \/ AddReed
  \/ RemoveMaterial
  \/ RemoveReed

SpecLedger == Init /\ [][NextLedger]_vars

(***************************************************************************)
(* Combat: enemy hits, the Tuba's delayed slam, death and respawn          *)
(***************************************************************************)
\* the Tuba's 0.5 s wind-up before its slam lands, in time units
SLAM_WINDUP == 1

\* the clock advances; a timer that is due fires first
Tick ==
  /\ now < StartTime + MaxTime
  /\ \A t \in timers : t.at > now
  /\ now' = now + 1
  /\ out' = [op |-> "tick", ret |-> "void", deaths |-> 0, saved |-> FALSE]
  /\ UNCHANGED <<player, gameState, timers, saveManagerMounted, lastSaveTime,
                 saveQueue, dbSave, split>>

\* the world in which the callback of the due timer t runs
Fired(t) == [Cur EXCEPT !.timers = timers \ {t}]

\* an enemy's useFrame (gated by gameState === 'playing') hits the player
EnemyHitOf(amounts) ==
  /\ gameState = "playing"
  /\ \E amount \in amounts : Done("takeDamage", takeDamage(Cur, amount))

EnemyHit == EnemyHitOf(DamageAmounts)

\* Tuba useFrame: start the slam, the damage lands after the wind-up
TubaWindup ==
  /\ gameState = "playing"
  /\ \E amount \in DamageAmounts :
        Done("tubaWindup", SetTimeout(Cur, "tubaSlam", SLAM_WINDUP, amount))

\* the Tuba's setTimeout callback: playerTakeDamage(...)
TubaSlam ==
  \E t \in timers :
     /\ t.kind = "tubaSlam"
     /\ t.at <= now
     /\ Done("takeDamage", takeDamage(Fired(t), t.arg))

\* DeathScreen: the countdown ends and calls respawn()
Respawn ==
  /\ gameState = "gameOver"
  /\ Done("respawn", respawn(Cur))

InvincibilityEnd ==
  \E t \in timers :
     /\ t.kind = "invincibilityEnd"
     /\ t.at <= now
     /\ Done("invincibilityEnd", invincibilityEnd(Fired(t)))

NextCombat ==
  \/ EnemyHit
  \/ TubaWindup
  \/ TubaSlam
  \/ Heal
  \/ Respawn
  \/ InvincibilityEnd
  \/ Tick

SpecCombat == Init /\ [][NextCombat]_vars

(***************************************************************************)
(* Persistence: SaveManager's auto-save, PauseMenu's quit-save, MainMenu   *)
(***************************************************************************)
InitSave ==
  /\ player = InitialPlayer
  /\ gameState = "menu"
  /\ now = StartTime
  /\ timers = {}
  /\ saveManagerMounted = TRUE
  /\ lastSaveTime = 0
  /\ saveQueue = <<>>
  /\ dbSave = NoSave
  /\ out = NoOut
  /\ split = NoSplit

\* MainMenu.handleNewGame: resetGame(); resetPlayer(); setGameState('playing')
NewGame ==
  /\ gameState = "menu"
  /\ Done("newGame", [resetPlayer(Cur) EXCEPT !.gameState = "playing"])

\* MainMenu.handleContinue: loadState(await loadGame()); setGameState('playing')
Continue ==
  /\ gameState = "menu"
  /\ Len(dbSave) > 0
  /\ Done("loadState", [loadState(Cur, dbSave[1]) EXCEPT !.gameState = "playing"])

\* pointer lock lost / KeyZ while playing
Pause ==
  /\ gameState = "playing"
  /\ Done("pause", [Cur EXCEPT !.gameState = "paused"])

\* PauseMenu.handleResume
Resume ==
  /\ gameState = "paused"
  /\ Done("resume", [Cur EXCEPT !.gameState = "playing"])

\* PauseMenu.handleQuit: await saveGame(current state); setGameState('menu')
Quit ==
  /\ gameState = "paused"
  /\ Commit("quit", [Cur EXCEPT !.gameState = "menu"], <<SaveData(player)>>)

\* the idle callback queued by handleSave runs: saveGame(saveData) puts slot 1
saveGame ==
  /\ Len(saveQueue) > 0
  /\ Commit("saveGame", [Cur EXCEPT !.saveQueue = Tail(saveQueue)], <<Head(saveQueue)>>)

\* an enemy's death effect grants its XP
KillReward ==
  /\ gameState \in {"playing", "gameOver"}
  /\ AddXpOf(KillXpAmounts)

\* continue-game hydration against the auto-save and the quit-save
\* a hit that kills at every level explored
LethalHit == EnemyHitOf(LethalAmounts)

\* nothing happens for the length of the save cooldown
CooldownPasses ==
  /\ now + SAVE_COOLDOWN <= StartTime + MaxTime
  /\ \A t \in timers : t.at >= now + SAVE_COOLDOWN
  /\ now' = now + SAVE_COOLDOWN
  /\ out' = [op |-> "tick", ret |-> "void", deaths |-> 0, saved |-> FALSE]
  /\ UNCHANGED <<player, gameState, timers, saveManagerMounted, lastSaveTime,
                 saveQueue, dbSave, split>>

NextSave ==
  \/ NewGame
  \/ Continue
  \/ Pause
  \/ Quit
  \/ saveGame
  \/ KillReward
  \/ LethalHit
  \/ Respawn
  \/ InvincibilityEnd
  \/ CooldownPasses

SpecSave == InitSave /\ [][NextSave]_vars

\* InventoryScreen (opened from the pause menu): onCraft
InventoryCraft ==
  /\ gameState = "paused"
  /\ CraftRecipe

\* an enemy's death effect drops echoes
EchoDrop ==
  /\ gameState \in {"playing", "gameOver"}
  /\ CollectEchoes

\* crafting under the auto-save subscriber
NextCraftSave ==
  \/ NewGame
  \/ Pause
  \/ Resume
  \/ saveGame
  \/ EchoDrop
  \/ InventoryCraft
  \/ Tick

SpecCraftSave == InitSave /\ [][NextCraftSave]_vars


(***************************************************************************)
(* A reward applied whole to one store and in two parts to its twin        *)
(***************************************************************************)
\* a freshly created store and its surroundings
NewWorld ==
  [player |-> InitialPlayer,
   gameState |-> "playing",
   now |-> StartTime,
   timers |-> {},
   mounted |-> FALSE,
   lastSaveTime |-> 0,
   saveQueue |-> <<>>,
   ret |-> "void",
   deaths |-> 0]

\* the parts a reward is split into
SplitAmounts == {0, 5 * XpScale, 10 * XpScale, 15 * XpScale}

\* store states S the comparison starts from, each reached by addXp calls
SplitStarts ==
  {NewWorld.player,
   addXp(NewWorld, 5 * XpScale).player,
   addXp(NewWorld, 10 * XpScale).player,
   addXp(addXp(NewWorld, 10 * XpScale), 5 * XpScale).player}

\* both stores hold S; split.twin is the store that receives the reward whole
InitSplit ==
  /\ player \in SplitStarts
  /\ gameState = "playing"
  /\ now = StartTime
  /\ timers = {}
  /\ saveManagerMounted = FALSE
  /\ lastSaveTime = 0
  /\ saveQueue = <<>>
  /\ dbSave = NoSave
  /\ out = NoOut
  /\ \E a \in SplitAmounts, b \in SplitAmounts :
        split = [on |-> TRUE, a |-> a, b |-> b, parts |-> 0, wholeDone |-> FALSE,
                 twin |-> player]

\* addXp(a + b) on the twin store
AddXpWhole ==
  /\ split.on /\ ~split.wholeDone
  /\ split' = [split EXCEPT !.wholeDone = TRUE,
                            !.twin = addXp([Cur EXCEPT !.player = split.twin],
                                           split.a + split.b).player]
  /\ out' = [op |-> "addXpWhole", ret |-> "void", deaths |-> 0, saved |-> FALSE]
  /\ UNCHANGED <<player, gameState, now, timers, saveManagerMounted, lastSaveTime,
                 saveQueue, dbSave>>

\* addXp(a), then addXp(b), on the store itself
AddXpPart ==
  /\ split.on /\ split.parts < 2
  /\ player' = addXp(Cur, IF split.parts = 0 THEN split.a ELSE split.b).player
  /\ split' = [split EXCEPT !.parts = split.parts + 1]
  /\ out' = [op |-> "addXp", ret |-> "void", deaths |-> 0, saved |-> FALSE]
  /\ UNCHANGED <<gameState, now, timers, saveManagerMounted, lastSaveTime,
                 saveQueue, dbSave>>

NextSplit ==
  \/ AddXpWhole
  \/ AddXpPart

SpecSplit == InitSplit /\ [][NextSplit]_vars

\* (level, xp, maxXp) of a store state
Progress(p) == <<p.level, p.xp, p.maxXp>>

(***************************************************************************)
(* Damage against defense and the respawn invincibility                    *)
(***************************************************************************)
NextDamage ==
  \/ AddReed
  \/ EquipReed
  \/ TakeDamage
  \/ Respawn
  \/ InvincibilityEnd
  \/ Tick

SpecDamage == Init /\ [][NextDamage]_vars

(***************************************************************************)
(* The attack cycle: clicks, the attack animation, death and respawn       *)
(***************************************************************************)
\* Player.tsx handleClick
Attack == Done("attack", attack(Cur))

\* Player.tsx useFrame: the attack animation has run its full cycle; the
\* frame does nothing while the Player renders nothing (visible is
\* gameState === 'playing', so groupRef.current is null otherwise)
StopAttack ==
  /\ gameState = "playing"
  /\ player.isAttacking
  /\ Done("stopAttack", stopAttack(Cur))

NextAttack ==
  \/ Attack
  \/ StopAttack
  \/ EnemyHit
  \/ Respawn
  \/ InvincibilityEnd
  \/ ResetPlayer
  \/ Tick

SpecAttack == Init /\ [][NextAttack]_vars

\* the attack cycle across pauses; the render loop calls the Player's frame
\* callback again and again for as long as the game is being played
NextAttackLive ==
  \/ NextAttack
  \/ Pause
  \/ Resume

SpecAttackLive == Init /\ [][NextAttackLive]_vars /\ SF_vars(StopAttack)

(***************************************************************************)
(* Combo: kills, the HUD's tempo expiry and the time between kills         *)
(***************************************************************************)
\* PlayerHUD's timeout callback and its already-expired branch:
\* usePlayerStore.setState({ tempo: 0, tempoRating: 'F' })
hudTempoExpired(w) == Set(w, [tempo |-> 0, tempoRating |-> "F"])

\* PlayerHUD's effect on [tempo, lastKillTime]: the previous run's cleanup
\* clears its timeout, then the effect body runs on the new values
hudTempoEffect(w) ==
  LET state == w.player
      cleared == [w EXCEPT !.timers = {t \in w.timers : t.kind # "tempoExpiry"}]
      timeUntilExpiry == (state.lastKillTime + COMBO_WINDOW) - w.now
  IN  IF state.tempo = 0 \/ state.lastKillTime = 0 THEN cleared
      ELSE IF timeUntilExpiry <= 0 THEN hudTempoExpired(cleared)
      ELSE SetTimeout(cleared, "tempoExpiry", timeUntilExpiry, 0)

\* levels of the enemies killed while the combo is explored
ComboEnemyLevels == {1}
\* the pauses between kills explored: 3 s, 4 s and 5 s, in time units
ComboWaits == {6, 8, 10}

\* an enemy dies (Enemy.takeDamage calls registerKill) under a mounted HUD
Kill ==
  /\ gameState = "playing"
  /\ \E enemyLevel \in ComboEnemyLevels :
        Done("registerKill", hudTempoEffect(registerKill(Cur, enemyLevel)))

\* the HUD's timeout is due: the streak is dropped, the effect runs again
TempoExpiry ==
  \E t \in timers :
     /\ t.kind = "tempoExpiry"
     /\ t.at <= now
     /\ Done("tempoExpiry", hudTempoEffect(hudTempoExpired(Fired(t))))

\* nothing happens for d time units; a timer that is due fires first
Elapse ==
  \E d \in ComboWaits :
     /\ now + d <= StartTime + MaxComboTime
     /\ \A t \in timers : t.at >= now + d
     /\ now' = now + d
     /\ out' = [op |-> "tick", ret |-> "void", deaths |-> 0, saved |-> FALSE]
     /\ UNCHANGED <<player, gameState, timers, saveManagerMounted, lastSaveTime,
                    saveQueue, dbSave, split>>

NextCombo ==
  \/ Kill
  \/ TempoExpiry
  \/ Elapse

SpecCombo == Init /\ [][NextCombo]_vars

(***************************************************************************)
(* Slows: applySlow and its reset timers                                   *)
(***************************************************************************)
\* the reset callback scheduled by applySlow
slowEnd_guarded(w) ==
  IF \E t \in w.timers : t.kind = "slowEnd" THEN w
  ELSE Set(w, [speedModifier |-> 100])

slowEnd(w) == Set(w, [speedModifier |-> 100])

\* applySlow without the floor of 0.1
applySlow_unfloored(w, percent, duration) ==
  LET modifier == 100 - percent
      w1 == Set(w, [speedModifier |-> modifier])
  IN  SetTimeout(w1, "slowEnd", duration, 0)

\* speedModifier in hundredths; duration in time units
applySlow(w, percent, duration) ==
  LET modifier == Max(10, 100 - percent)
      w1 == Set(w, [speedModifier |-> modifier])
  IN  SetTimeout(w1, "slowEnd", duration, 0)

\* the Tuba's crash slows by 20 %; 95 % meets the floor of 0.1; 0 % slows nothing
SlowPercents == {0, 20, 95}
\* crash durations of a level-100 and a level-150 Tuba: 5 s and 10 s
SlowDurations == {10, 20}

ApplySlow ==
  \E percent \in SlowPercents, duration \in SlowDurations :
     Done("applySlow", applySlow(Cur, percent, duration))

SlowEnd ==
  \E t \in timers :
     /\ t.kind = "slowEnd"
     /\ t.at <= now
     /\ Done("slowEnd", slowEnd(Fired(t)))

NextSlow ==
  \/ ApplySlow
  \/ SlowEnd
  \/ Elapse

SpecSlow == Init /\ [][NextSlow]_vars

(***************************************************************************)
(* DeathScreen: the Respawn button, the countdown and the delayed respawn  *)
(***************************************************************************)
\* the fade-out delay of handleRespawn (500 ms), in time units
RESPAWN_DELAY == 1

\* DeathScreen.handleRespawn, called by the Respawn button and by the
\* countdown: setTimeout(() => respawn(), 500)
handleRespawn(w) == SetTimeout(w, "respawn", RESPAWN_DELAY, 0)

\* the DeathScreen is mounted while the game is over
HandleRespawn ==
  /\ gameState = "gameOver"
  /\ Done("handleRespawn", handleRespawn(Cur))

\* handleRespawn's timeout is due; unmounting the DeathScreen does not clear it
RespawnDue ==
  \E t \in timers :
     /\ t.kind = "respawn"
     /\ t.at <= now
     /\ Done("respawn", respawn(Fired(t)))

NextRespawn ==
  \/ LethalHit
  \/ HandleRespawn
  \/ RespawnDue
  \/ InvincibilityEnd
  \/ Tick

SpecRespawn == Init /\ [][NextRespawn]_vars

\* a life with progress, gear and a combo, ended by a lethal hit and resumed
\* by the DeathScreen's respawn
NextRevive ==
  \/ RegisterKill
  \/ CollectEchoes
  \/ AddReed
  \/ EquipReed
  \/ Attack
  \/ LethalHit
  \/ Respawn

SpecRevive == Init /\ [][NextRevive]_vars

(***************************************************************************)
(* Hydration: loadState applied to the record found in the save slot       *)
(***************************************************************************)
\* records the save slot may hold: partial ones, ones written at a level-up
\* (xp 0) or with nothing collected (echoes 0), and ones of an older version
\* that stored derived stats
Snapshots ==
  { [xp |-> 0],
    [echoes |-> 0, reedDurability |-> 0],
    [level |-> 2, xp |-> 3 * XpScale],
    [level |-> 2, health |-> 14 * HpScale, xp |-> 0, echoes |-> 0,
     equippedReed |-> "null", reedDurability |-> 0, embouchure |-> 1, embouchureXp |-> 0],
    [equippedReed |-> "1.5", reedDurability |-> 50],
    [level |-> 3, maxHealth |-> 10 * HpScale],
    [equippedReed |-> "null", maxHealth |-> 14 * HpScale] }

InitLoad ==
  /\ player = InitialPlayer
  /\ gameState = "playing"
  /\ now = StartTime
  /\ timers = {}
  /\ saveManagerMounted = FALSE
  /\ lastSaveTime = 0
  /\ saveQueue = <<>>
  /\ dbSave \in {<<saved>> : saved \in Snapshots}
  /\ out = NoOut
  /\ split = NoSplit

\* loadState(save) with the record of the save slot
LoadState == Done("loadState", loadState(Cur, dbSave[1]))

NextLoad ==
  \/ LoadState
  \/ KillReward
  \/ EnemyHit

SpecLoad == InitLoad /\ [][NextLoad]_vars

(***************************************************************************)
(* Hydration of the inventory: snapshots written before an item existed    *)
(***************************************************************************)
\* save-slot records whose inventory lacks identifiers or whole categories
InventorySnapshots ==
  { [level |-> 1, health |-> 10 * HpScale, xp |-> 0, echoes |-> 5,
     inventory |-> [materials |-> [echoes |-> 5, valves |-> 5]]],
    [level |-> 1, health |-> 10 * HpScale, xp |-> 0, echoes |-> 0,
     inventory |-> [materials |-> [echoes |-> 5, brass_ingots |-> 10],
                    reeds |-> ("1.5" :> 5),
                    accessories |-> <<>>]],
    [echoes |-> 5,
     inventory |-> [materials |-> [echoes |-> 0],
                    reeds |-> ("1.0" :> 10 @@ "1.5" :> 5)]] }

InitHydrate ==
  /\ player = InitialPlayer
  /\ gameState = "playing"
  /\ now = StartTime
  /\ timers = {}
  /\ saveManagerMounted = FALSE
  /\ lastSaveTime = 0
  /\ saveQueue = <<>>
  /\ dbSave \in {<<saved>> : saved \in InventorySnapshots}
  /\ out = NoOut
  /\ split = NoSplit

NextHydrate ==
  \/ LoadState
  \/ AddMaterial
  \/ RemoveMaterial
  \/ AddReed
  \/ CollectEchoes
  \/ ResetPlayer

SpecHydrate == InitHydrate /\ [][NextHydrate]_vars

(***************************************************************************)
(* Reeds on the mouthpiece: equip, unequip, wear, with hits in between     *)
(***************************************************************************)
NextReed ==
  \/ AddReed
  \/ EquipReed
  \/ UnequipReed
  \/ TickReedDurability
  \/ TakeDamage
  \/ Heal
  \/ LevelUp

SpecReed == Init /\ [][NextReed]_vars

(***************************************************************************)
(* Embouchure: XP from brass kills                                         *)
(***************************************************************************)
addEmbouchureXp(w, amount) ==
  LET state == w.player
      embouchureXp == state.embouchureXp + amount
      xpRequired == state.embouchure * 100
  IN  IF state.embouchure >= 10 THEN Set(w, <<>>)
      ELSE IF embouchureXp >= xpRequired
           THEN IF state.embouchure + 1 > 10
                THEN Set(w, [embouchure |-> 10, embouchureXp |-> 0])
                ELSE Set(w, [embouchure |-> state.embouchure + 1,
                             embouchureXp |-> embouchureXp - xpRequired])
           ELSE Set(w, [embouchure |-> state.embouchure, embouchureXp |-> embouchureXp])

\* what a Trumpet, a Trombone and a Tuba grant on death
EmbouchureAmounts == {20, 35, 100}

AddEmbouchureXp ==
  \E amount \in EmbouchureAmounts : Done("addEmbouchureXp", addEmbouchureXp(Cur, amount))

NextEmbouchure ==
  \/ AddEmbouchureXp
  \/ ResetPlayer

SpecEmbouchure == Init /\ [][NextEmbouchure]_vars

(***************************************************************************)
(* Session end: the SaveManager's effect cleanup                           *)
(***************************************************************************)
\* the cleanup of SaveManager's effect: the six unsubscribes, then
\* handleSave() ("Force save on unmount/close")
unmountSaveManager(w) ==
  [handleSave(w, w.player, w.now) EXCEPT !.mounted = FALSE]

InitSession ==
  /\ player = InitialPlayer
  /\ gameState = "playing"
  /\ now = StartTime
  /\ timers = {}
  /\ saveManagerMounted = TRUE
  /\ lastSaveTime = 0
  /\ saveQueue = <<>>
  /\ dbSave = NoSave
  /\ out = NoOut
  /\ split = NoSplit

\* the game page is open: kills and pickups reach the store
SessionKill == saveManagerMounted /\ KillReward
SessionPickup == saveManagerMounted /\ CollectEchoes
SessionTick == saveManagerMounted /\ Tick

\* the game page is left: React unmounts the SaveManager
Unmount ==
  /\ saveManagerMounted
  /\ saveManagerMounted' = FALSE
  /\ lastSaveTime' = unmountSaveManager(Cur).lastSaveTime
  /\ saveQueue' = unmountSaveManager(Cur).saveQueue
  /\ out' = [op |-> "unmount", ret |-> "void", deaths |-> 0,
             saved |-> Len(unmountSaveManager(Cur).saveQueue) > Len(saveQueue)]
  /\ UNCHANGED <<player, gameState, now, timers, dbSave, split>>

NextSession ==
  \/ SessionKill
  \/ SessionPickup
  \/ SessionTick
  \/ saveGame
  \/ Unmount

SpecSession == InitSession /\ [][NextSession]_vars

\* the crafting bench: echoes and reeds come in, recipes turn them into reeds
NextCraft ==
  \/ CollectEchoes
  \/ AddMaterial
  \/ AddReed
  \/ CraftRecipe

SpecCraft == Init /\ [][NextCraft]_vars

(***************************************************************************)
(* The XP curve, level by level                                            *)
(***************************************************************************)
\* the levels the curve is evaluated at: the table's 550 and some beyond
CurveLevels == 1..MaxCurveLevel

\* a caller (addXp, levelUp, loadState, the HUD) asks for a level's requirement
XpRequired ==
  \E currentLevel \in CurveLevels :
     /\ out' = [op |-> "getXpRequiredForLevel", ret |-> getXpRequiredForLevel(currentLevel),
                deaths |-> 0, saved |-> FALSE, arg |-> currentLevel]
     /\ UNCHANGED <<player, gameState, now, timers, saveManagerMounted, lastSaveTime,
                    saveQueue, dbSave, split>>

NextCurve ==
  \/ XpRequired

SpecCurve == Init /\ [][NextCurve]_vars

\* reeds worn, taken off and broken, a new game, and the save slot loaded
NextWear ==
  \/ AddReed
  \/ CollectEchoes
  \/ EquipReed
  \/ UnequipReed
  \/ TickReedDurability
  \/ ResetPlayer
  \/ LoadState

\* the save slot holds an autosave of a player who wears no reed, or a save
\* of a reed wearer with or without the optional reedDurability
WearSaves ==
  { SaveData(InitialPlayer),
    SaveData([InitialPlayer EXCEPT !.echoes = 5]),
    [equippedReed |-> "1.5", reedDurability |-> 50],
    [equippedReed |-> "1.5"] }

InitWear ==
  /\ player = InitialPlayer
  /\ gameState = "playing"
  /\ now = StartTime
  /\ timers = {}
  /\ saveManagerMounted = FALSE
  /\ lastSaveTime = 0
  /\ saveQueue = <<>>
  /\ dbSave \in {<<saved>> : saved \in WearSaves}
  /\ out = NoOut
  /\ split = NoSplit

SpecWear == InitWear /\ [][NextWear]_vars

\* FirstPersonController's useFrame ticks the durability on every frame
SpecWearLive == InitWear /\ [][NextWear]_vars /\ WF_vars(TickReedDurability)

(***************************************************************************)
(* Streaks: the rating along a long combo and every writer that ends it    *)
(***************************************************************************)
\* the anti-camping reset dropping the streak but not its rating
useFrame_tempoOnly(w, delta) ==
  LET w1 == tickReedDurability(w, delta)
      playerState == w1.player
      idleTime == w1.now - playerState.lastMoveTime
  IN  IF idleTime > 60 /\ playerState.tempo > 0
      THEN Set(w1, [tempo |-> 0])
      ELSE w1

\* FirstPersonController's useFrame while no movement key is held: the
\* durability tick, then the anti-camping reset after more than 30 s idle
useFrame(w, delta) ==
  LET w1 == tickReedDurability(w, delta)
      playerState == w1.player
      idleTime == w1.now - playerState.lastMoveTime
  IN  IF idleTime > 60 /\ playerState.tempo > 0
      THEN Set(w1, [tempo |-> 0, tempoRating |-> "F"])
      ELSE w1

\* the store call op has returned with a streak of at most MaxStreak kills
StreakDone(op, w) ==
  /\ InBounds([w.player EXCEPT !.tempo = 0])
  /\ w.player.tempo <= MaxStreak
  /\ Publish(op, w, dbSave)

\* a new game begun while a streak of tempo kills is running (resetPlayer
\* keeps tempo, tempoRating and lastKillTime), the player idle for the last
\* idle time units and the HUD's expiry timeout pending
InitStreak ==
  /\ \E tempo \in 0..(MaxStreak - 1), idle \in {0, 61} :
        /\ player = [InitialPlayer EXCEPT !.tempo = tempo,
                                          !.tempoRating = TempoRating(tempo),
                                          !.lastKillTime = IF tempo = 0 THEN 0 ELSE StartTime,
                                          !.lastMoveTime = StartTime - idle]
        /\ timers = IF tempo = 0 THEN {}
                    ELSE {[kind |-> "tempoExpiry", at |-> StartTime + COMBO_WINDOW, arg |-> 0]}
  /\ gameState = "playing"
  /\ now = StartTime
  /\ saveManagerMounted = FALSE
  /\ lastSaveTime = 0
  /\ saveQueue = <<>>
  /\ dbSave = NoSave
  /\ out = NoOut
  /\ split = NoSplit

StreakKill ==
  /\ gameState = "playing"
  /\ \E enemyLevel \in EnemyLevels :
        StreakDone("registerKill", hudTempoEffect(registerKill(Cur, enemyLevel)))

\* a frame of the idle player; the HUD's effect runs on the new tempo
IdleFrame ==
  /\ gameState = "playing"
  /\ StreakDone("useFrame", hudTempoEffect(useFrame(Cur, 0)))

\* DeathScreen's respawn() under the mounted HUD
StreakRespawn ==
  /\ gameState = "gameOver"
  /\ StreakDone("respawn", hudTempoEffect(respawn(Cur)))

NextStreak ==
  \/ StreakKill
  \/ TempoExpiry
  \/ IdleFrame
  \/ LethalHit
  \/ StreakRespawn
  \/ Elapse

SpecStreak == InitStreak /\ [][NextStreak]_vars

(***************************************************************************)
(* Stat bands: getStatsForLevel across the band edges                      *)
(***************************************************************************)
\* a caller (calculateStats, levelUp, the enemies) asks for a level's stats
StatsFor ==
  \E targetLevel \in 1..MaxStatLevel :
     /\ out' = [op |-> "getStatsForLevel", ret |-> getStatsForLevel(targetLevel),
                deaths |-> 0, saved |-> FALSE, arg |-> targetLevel]
     /\ UNCHANGED <<player, gameState, now, timers, saveManagerMounted, lastSaveTime,
                    saveQueue, dbSave, split>>

NextBands ==
  \/ StatsFor

SpecBands == Init /\ [][NextBands]_vars

(***************************************************************************)
(* Long Tone: activation, its cooldown and its deactivation timers         *)
(***************************************************************************)
\* the setTimeout callback of triggerLongTone
longToneEnd(w) == Set(w, [isLongToneActive |-> FALSE])

\* triggerLongTone with a cooldown as short as the tone
triggerLongTone_eager(w) ==
  LET state == w.player IN
  IF w.now < state.longToneCooldown THEN w
  ELSE SetTimeout(Set(w, [isLongToneActive |-> TRUE,
                          longToneCooldown |-> w.now + 6]),
                  "longToneEnd", 6, 0)

\* longToneTotalCooldown is 7500 ms and longToneDuration 3000 ms: 15 and 6
\* time units
triggerLongTone(w) ==
  LET state == w.player IN
  IF w.now < state.longToneCooldown THEN w
  ELSE SetTimeout(Set(w, [isLongToneActive |-> TRUE,
                          longToneCooldown |-> w.now + 15]),
                  "longToneEnd", 6, 0)

\* CombatHUD's key handler, or any other caller of the store's action
TriggerLongTone == Done("triggerLongTone", triggerLongTone(Cur))

LongToneEnd ==
  \E t \in timers :
     /\ t.kind = "longToneEnd"
     /\ t.at <= now
     /\ Done("longToneEnd", longToneEnd(Fired(t)))

NextLongTone ==
  \/ TriggerLongTone
  \/ LongToneEnd
  \/ ResetPlayer
  \/ LethalHit
  \/ Respawn
  \/ InvincibilityEnd
  \/ Tick
  \/ Elapse

SpecLongTone == Init /\ [][NextLongTone]_vars

(***************************************************************************)
(* Properties                                                              *)
(***************************************************************************)
\* C1: after a completed addXp, registerKill or craftRecipe the player's xp
\* lies in [0, maxXp): the level-up resolution leaves no overflow behind.
C1_XpBelowMaxXp ==
  out.op \in {"addXp", "registerKill", "craftRecipe"}
     => (0 <= player.xp /\ player.xp < player.maxXp)

\* C2: a reward applied whole, addXp(a + b), ends with the same
\* (level, xp, maxXp) as the same reward applied as addXp(a) then addXp(b).
C2_SplitEqualsWhole ==
  (split.on /\ split.wholeDone /\ split.parts = 2)
     => Progress(player) = Progress(split.twin)

\* C3: takeDamage triggers the death side effect only when it takes health
\* from above 0 to 0, and then exactly once; a hit landing at health 0 does not.
C3_DeathOnlyOnTransition ==
  [][(out'.op = "takeDamage" /\ out'.deaths > 0)
        => (out'.deaths = 1 /\ player.health > 0 /\ player'.health = 0)]_vars

\* C4: in every reachable state 0 <= health <= maxHealth.
C4_HealthWithinMax ==
  0 <= player.health /\ player.health <= player.maxHealth

\* C5: no quantity is ever negative: every material stack, every reed stack
\* and the echoes balance are >= 0.
C5_NoNegativeQuantity ==
  /\ player.echoes >= 0
  /\ \A m \in DOMAIN player.inventory.materials : player.inventory.materials[m] >= 0
  /\ \A r \in DOMAIN player.inventory.reeds : player.inventory.reeds[r] >= 0

\* C6: the echoes balance and its inventory mirror agree in every reachable state.
C6_EchoesMirrorInLockstep ==
  player.echoes = player.inventory.materials.echoes

\* C7: craftRecipe returns false and changes nothing when the recipe is unknown
\* or some ingredient is short, the echoes ingredient being measured against the
\* echoes balance, materials against their stacks and reeds against theirs.
C7_ShortCraftRefused ==
  [][\A recipeId \in RecipeIds :
        LET k == FindRecipe(recipeId)
            Available(itemId) ==
              IF itemId = "echoes" THEN player.echoes
              ELSE IF itemId \in DOMAIN player.inventory.materials
              THEN player.inventory.materials[itemId]
              ELSE player.inventory.reeds[itemId]
            Short ==
              \/ k = 0
              \/ \E i \in 1..Len(ALL_RECIPES[k].ingredients) :
                    Available(ALL_RECIPES[k].ingredients[i].itemId)
                       < ALL_RECIPES[k].ingredients[i].quantity
        IN  (Short /\ Done("craftRecipe", craftRecipe(Cur, recipeId)))
               => (out'.ret = "false" /\ player' = player)]_vars

\* C8: a snapshot the auto-save captures during a successful craftRecipe shows
\* the completed craft: the XP reward never without the deduction and the credit.
C8_SnapshotShowsWholeCraft ==
  (out.op = "craftRecipe" /\ out.ret = "true" /\ out.saved)
     => LET snap == saveQueue[Len(saveQueue)]
        IN  /\ snap.xp = player.xp
            /\ snap.level = player.level
            /\ snap.echoes = player.echoes
            /\ snap.inventory = player.inventory

\* C9: a craftRecipe whose ingredients are all at least met returns true, takes
\* exactly the required quantity of each ingredient from its stack or balance,
\* adds exactly outputQuantity to the output stack and leaves the other stacks alone.
C9_MetCraftExact ==
  [][\A recipeId \in RecipeIds \ {"no_such_recipe"} :
        LET recipe == ALL_RECIPES[FindRecipe(recipeId)]
            Available(itemId) ==
              IF itemId = "echoes" THEN player.echoes
              ELSE IF itemId \in DOMAIN player.inventory.materials
              THEN player.inventory.materials[itemId]
              ELSE player.inventory.reeds[itemId]
            Met ==
              \A i \in 1..Len(recipe.ingredients) :
                 Available(recipe.ingredients[i].itemId) >= recipe.ingredients[i].quantity
            Required(itemId) ==
              LET at == {i \in 1..Len(recipe.ingredients) :
                            recipe.ingredients[i].itemId = itemId}
              IN  IF at = {} THEN 0
                  ELSE recipe.ingredients[CHOOSE i \in at : TRUE].quantity
            Credit(itemId) == IF itemId = recipe.outputId THEN recipe.outputQuantity ELSE 0
        IN  (Met /\ Done("craftRecipe", craftRecipe(Cur, recipeId)))
               => /\ out'.ret = "true"
                  /\ player'.echoes = player.echoes - Required("echoes")
                  /\ \A m \in DOMAIN player.inventory.materials \ {"echoes"} :
                        player'.inventory.materials[m]
                           = player.inventory.materials[m] - Required(m) + Credit(m)
                  /\ \A r \in DOMAIN player.inventory.reeds :
                        player'.inventory.reeds[r]
                           = player.inventory.reeds[r] - Required(r) + Credit(r)]_vars

\* C10: removeMaterial and removeReed return false and leave the inventory as it
\* was when the stack holds less than the quantity asked for; otherwise they take
\* exactly that quantity from exactly that stack and return true.
C10_RemoveExactOrRefuse ==
  [][/\ \A itemId \in MaterialInputs, quantity \in Quantities :
          Done("removeMaterial", removeMaterial(Cur, itemId, quantity))
             => IF player.inventory.materials[itemId] < quantity
                THEN out'.ret = "false" /\ player'.inventory = player.inventory
                ELSE /\ out'.ret = "true"
                     /\ player'.inventory =
                          [player.inventory EXCEPT !.materials[itemId] = @ - quantity]
     /\ \A strength \in ReedInputs, quantity \in Quantities :
          Done("removeReed", removeReed(Cur, strength, quantity))
             => IF player.inventory.reeds[strength] < quantity
                THEN out'.ret = "false" /\ player'.inventory = player.inventory
                ELSE /\ out'.ret = "true"
                     /\ player'.inventory =
                          [player.inventory EXCEPT !.reeds[strength] = @ - quantity]]_vars

\* a removeMaterial has just been refused, the stacks standing as they were
C10_Refused ==
  /\ out.op = "removeMaterial"
  /\ out.ret = "false"
  /\ player.inventory.materials.valves = 0
  /\ player.inventory.reeds["1.5"] = 5

\* C11: takeDamage leaves the player as it was while isInvincible holds; otherwise
\* it sets health to max(0, health - amount * (1 - defense)), exactly, and changes
\* no other player field.
C11_DamageAfterDefense ==
  [][out'.op = "takeDamage"
        => \E amount \in DamageAmounts :
              IF player.isInvincible
              THEN player' = player
              ELSE /\ player'.health * PctScale
                        = Max(0, player.health * PctScale
                                   - amount * (PctScale - player.defense))
                   /\ player' = [player EXCEPT !.health = player'.health]]_vars

\* a hit has landed on a player whose reed gives a defense bonus
C11_DefendedHit ==
  /\ out.op = "takeDamage"
  /\ player.defense > 0
  /\ ~player.isInvincible
  /\ 0 < player.health /\ player.health < player.maxHealth

\* C12: attack() changes nothing and queues nothing while isAttacking holds or
\* less than 500 ms have passed since lastAttackTime; otherwise it sets isAttacking
\* and lastAttackTime = now.  isAttacking rises only through attack().
C12_AttackGated ==
  [][/\ out'.op = "attack"
          => IF player.isAttacking \/ (now - player.lastAttackTime) * TimeUnit < 500
             THEN /\ player' = player
                  /\ timers' = timers
                  /\ gameState' = gameState
                  /\ saveQueue' = saveQueue
             ELSE player' = [player EXCEPT !.isAttacking = TRUE,
                                           !.lastAttackTime = now,
                                           !.attackProgress = 0]
     /\ (~player.isAttacking /\ player'.isAttacking) => out'.op = "attack"]_vars

\* an attack asked for right after the previous one ended was refused
C12_RefusedOnCooldown ==
  /\ out.op = "attack"
  /\ ~player.isAttacking
  /\ player.lastAttackTime = now

\* C13: a registerKill at time T adds 1 to the streak when a kill came before
\* and T - lastKillTime <= 7000 ms, otherwise it sets the streak to 1; either
\* way lastKillTime becomes T.
C13_KillExtendsOrRestarts ==
  [][out'.op = "registerKill"
        => /\ player'.tempo
                = IF player.lastKillTime > 0
                     /\ (now - player.lastKillTime) * TimeUnit <= 7000
                  THEN player.tempo + 1
                  ELSE 1
           /\ player'.lastKillTime = now]_vars

\* a kill exactly 7000 ms after the previous one has extended the streak
C13_ExtendedAtWindowEdge ==
  /\ out.op = "registerKill"
  /\ player.tempo = 2
  /\ player.lastKillTime = StartTime + COMBO_WINDOW
  /\ player.lastKillTime = now

\* C14 (as stated): kills at t = 0 s, 3 s and 8 s with the 7000 ms window
\* yield the streak sequence [1, 2, 1].  The store keeps only tempo and
\* lastKillTime, so each kill of that run is told by them and the clock.
C14_Kills038Yield121 ==
  [][out'.op = "registerKill"
        => /\ (now = StartTime /\ player.lastKillTime = 0)
                 => player'.tempo = 1
           /\ (now = StartTime + 3000 \div TimeUnit /\ player.lastKillTime = StartTime
                 /\ player.tempo = 1)
                 => player'.tempo = 2
           /\ (now = StartTime + 8000 \div TimeUnit
                 /\ player.lastKillTime = StartTime + 3000 \div TimeUnit
                 /\ player.tempo = 2)
                 => player'.tempo = 1]_vars

\* C14 (amended): kills at t = 0 s, 3 s and 8 s yield the streak sequence
\* [1, 2, 3]: the third kill is 5 s after the second, inside the window.
C14_Kills038Yield123 ==
  [][out'.op = "registerKill"
        => /\ (now = StartTime /\ player.lastKillTime = 0)
                 => player'.tempo = 1
           /\ (now = StartTime + 3000 \div TimeUnit /\ player.lastKillTime = StartTime
                 /\ player.tempo = 1)
                 => player'.tempo = 2
           /\ (now = StartTime + 8000 \div TimeUnit
                 /\ player.lastKillTime = StartTime + 3000 \div TimeUnit
                 /\ player.tempo = 2)
                 => player'.tempo = 3]_vars

\* the third kill of that run has landed
C14_ThirdKillAt8s ==
  /\ out.op = "registerKill"
  /\ now = StartTime + 8000 \div TimeUnit
  /\ player.lastKillTime = now
  /\ player.tempo = 3
  /\ player.tempoRating = "C"

\* C15: the combo decays (streak 0, rating 'F') only when
\* now - lastKillTime > 7000 ms; at exactly 7000 ms the streak is intact, so
\* a kill inside the window extends a streak of at least 1, whichever of the
\* HUD's expiry and the kill runs first.
C15_DecayOnlyPastWindow ==
  [][/\ (out'.op = "tempoExpiry" /\ player'.tempo = 0)
          => (now - player.lastKillTime) * TimeUnit > 7000
     /\ (out'.op = "registerKill" /\ player.lastKillTime > 0
           /\ (now - player.lastKillTime) * TimeUnit <= 7000)
          => player'.tempo >= 2]_vars

\* C16: overlapping slows are neither stacked nor prioritised: applySlow
\* overwrites the modifier with its own and adds its own reset timer next to
\* those outstanding, and every reset timer sets speedModifier back to 1.0,
\* also while a later-expiring slow's timer is still outstanding.
C16_SlowsClobber ==
  [][/\ out'.op = "applySlow"
          => \E percent \in SlowPercents, duration \in SlowDurations :
                /\ player' = [player EXCEPT !.speedModifier = Max(10, 100 - percent)]
                /\ timers' = timers \cup {[kind |-> "slowEnd", at |-> now + duration,
                                           arg |-> 0]}
     /\ out'.op = "slowEnd"
          => /\ player' = [player EXCEPT !.speedModifier = 100]
             /\ \E t \in timers : t.at <= now /\ timers' = timers \ {t}]_vars

\* the earlier-expiring slow's reset has run while a later one is outstanding
C16_ClobberedEarly ==
  /\ out.op = "slowEnd"
  /\ player.speedModifier = 100
  /\ \E t \in timers : t.kind = "slowEnd" /\ t.at > now

\* C17: every respawn grants the full invincibility window: for 2000 ms after
\* the most recent respawn (while the timer it scheduled is not yet due) the
\* player is invincible and takeDamage changes nothing, also when an earlier
\* respawn's timer is still outstanding; once no window is left the player is
\* vulnerable again.
C17_FullWindowAfterEveryRespawn ==
  [][/\ (\E t \in timers' : t.kind = "invincibilityEnd" /\ t.at > now')
          => player'.isInvincible
     /\ (\A t \in timers' : t.kind # "invincibilityEnd")
          => ~player'.isInvincible
     /\ (out'.op = "takeDamage"
           /\ \E t \in timers : t.kind = "invincibilityEnd" /\ t.at > now)
          => player' = player]_vars

\* C18: respawn sets health to maxHealth, isAttacking and isLongToneActive to
\* false, tempo to 0 with rating 'F', lastKillTime to 0, position to the spawn
\* point [0, 1.5, 0], speedModifier to 1.0, isInvincible to true and the game
\* state to 'playing'; level, xp, echoes, inventory, the equipped reed and
\* every other field stay as they were.
C18_RespawnKeepsProgress ==
  [][out'.op = "respawn"
        => /\ player' = [player EXCEPT !.health = player.maxHealth,
                                       !.isAttacking = FALSE,
                                       !.isLongToneActive = FALSE,
                                       !.tempo = 0,
                                       !.tempoRating = "F",
                                       !.lastKillTime = 0,
                                       !.position = <<0, 15, 0>>,
                                       !.speedModifier = 100,
                                       !.isInvincible = TRUE]
           /\ gameState' = "playing"]_vars

\* a levelled-up player with a reed equipped and echoes collected is back
\* at full health
C18_RespawnedWithProgress ==
  /\ out.op = "respawn"
  /\ gameState = "playing"
  /\ player.level > 1
  /\ player.xp > 0
  /\ player.echoes > 0
  /\ player.equippedReed # "null"
  /\ player.health = player.maxHealth
  /\ player.isInvincible

\* C19: loadState overwrites the store's field for every field present in the
\* snapshot (level, health, xp, echoes, reedDurability, embouchure,
\* embouchureXp, equippedReed, position), also when the value is 0, whatever
\* the state it is applied to.
C19_PresentFieldsOverwritten ==
  [][out'.op = "loadState"
        => \A k \in DOMAIN dbSave[1] \cap
                      {"level", "health", "xp", "echoes", "reedDurability",
                       "embouchure", "embouchureXp", "equippedReed", "position"} :
              player'[k] = dbSave[1][k]]_vars

\* C20: when the snapshot contains level or equippedReed, loadState leaves
\* maxHealth, damage, basicAttackDamage, speed, critChance and defense at the
\* values derived from the resulting level and reed, and maxXp at the
\* requirement of the resulting level, whatever derived value (such as
\* maxHealth) the snapshot stores.
C20_DerivedStatsRecomputed ==
  [][(out'.op = "loadState" /\ {"level", "equippedReed"} \cap DOMAIN dbSave[1] # {})
        => /\ player'.maxHealth = calculateStats(player'.level, player'.equippedReed).health
           /\ player'.damage = calculateStats(player'.level, player'.equippedReed).damage
           /\ player'.basicAttackDamage
                = calculateStats(player'.level, player'.equippedReed).basicAttackDamage
           /\ player'.speed = calculateStats(player'.level, player'.equippedReed).speed
           /\ player'.critChance = calculateStats(player'.level, player'.equippedReed).critChance
           /\ player'.defense = calculateStats(player'.level, player'.equippedReed).defense
           /\ player'.maxXp = getXpRequiredForLevel(player'.level) * XpScale]_vars

\* C21: every identifier of the material and reed catalogs is in the inventory
\* after every step; after loadState of a snapshot with an inventory, an
\* identifier the snapshot lacks has quantity 0, one it has keeps the
\* snapshot's quantity, and the echoes entry is the currency balance loaded.
C21_CatalogAlwaysPresent ==
  [][/\ MaterialItemId \subseteq DOMAIN player'.inventory.materials
     /\ ReedStrength \subseteq DOMAIN player'.inventory.reeds
     /\ (out'.op = "loadState" /\ "inventory" \in DOMAIN dbSave[1])
          => /\ \A m \in MaterialItemId \ {"echoes"} :
                   player'.inventory.materials[m]
                     = IF m \in DOMAIN Category(dbSave[1].inventory, "materials")
                       THEN dbSave[1].inventory.materials[m]
                       ELSE 0
             /\ \A r \in ReedStrength :
                   player'.inventory.reeds[r]
                     = IF r \in DOMAIN Category(dbSave[1].inventory, "reeds")
                       THEN dbSave[1].inventory.reeds[r]
                       ELSE 0
             /\ player'.inventory.materials.echoes = player'.echoes]_vars

\* a snapshot without the reeds category and without valve oil has been
\* loaded
C21_LoadedSparseInventory ==
  /\ out.op = "loadState"
  /\ "reeds" \notin DOMAIN dbSave[1].inventory
  /\ "valve_oil" \notin DOMAIN dbSave[1].inventory.materials
  /\ player.inventory.materials.valve_oil = 0
  /\ player.inventory.materials.valves = 5
  /\ player.inventory.reeds["1.5"] = 0

C23_HealthPercentageKept ==
  [][(/\ out'.op \in {"equipReed", "unequipReed", "tickReedDurability"}
      /\ player'.equippedReed # player.equippedReed)
        => /\ player'.maxHealth = calculateStats(player.level, player'.equippedReed).health
           /\ player'.health
                = Max(1 * HpScale,
                      ((player'.maxHealth * player.health) \div (HpScale * player.maxHealth))
                        * HpScale)]_vars

\* C24: embouchure stays within 1..10; once it is 10, embouchureXp is 0 and a
\* further addEmbouchureXp changes nothing.
C24_EmbouchureCapped ==
  [][/\ player'.embouchure \in 1..10
     /\ player'.embouchure = 10 => player'.embouchureXp = 0
     /\ (out'.op = "addEmbouchureXp" /\ player.embouchure = 10) => player' = player]_vars

\* C25: resetPlayer returns the whole player state to its new-game defaults:
\* stats, echoes, inventory, equipment, the attack and Long Tone flags, the
\* combo state (tempo 0, rating 'F', lastKillTime 0) and the status effects
\* (speedModifier 1.0, not invincible).
C25_ResetToNewGame ==
  [][out'.op = "resetPlayer"
        => player' = [InitialPlayer EXCEPT !.lastMoveTime = player.lastMoveTime]]_vars

\* C26: once the SaveManager has shut down and every save it issued has
\* completed, the persisted snapshot equals the in-memory level, xp, echoes,
\* inventory, equipped reed and embouchure: no significant change is unsaved.
C26_NothingLeftUnsaved ==
  (~saveManagerMounted /\ saveQueue = <<>>)
     => /\ Len(dbSave) > 0
        /\ dbSave[1].level = player.level
        /\ dbSave[1].xp = player.xp
        /\ dbSave[1].echoes = player.echoes
        /\ dbSave[1].inventory = player.inventory
        /\ dbSave[1].equippedReed = player.equippedReed
        /\ dbSave[1].embouchure = player.embouchure
        /\ dbSave[1].embouchureXp = player.embouchureXp

C29_XpRequirementPositive ==
  out.op = "getXpRequiredForLevel"
     => /\ out.ret > 0
        /\ out.arg = 1 => out.ret = 5
        /\ out.arg = 100 => out.ret = 7560
        /\ out.arg = 101 => out.ret = 75600
        /\ out.arg = 102 => out.ret = 75600 + 2400
        /\ out.arg > 550 => out.ret > 10000

\* the requirement of a level beyond the table has been asked for
C29_BeyondTable ==
  /\ out.op = "getXpRequiredForLevel"
  /\ out.arg = 551
  /\ out.ret > 0

\* C30: reedDurability is 0 whenever no reed is equipped, after unequipReed,
\* equipReed(null), a durability break, resetPlayer and loadState alike.
C30_NoReedNoDurability ==
  player.equippedReed = null => player.reedDurability = 0

\* C31: in every reachable state tempoRating is the rating the threshold table
\* gives for tempo (F = 0, D = 1-2, C = 3-5, B = 6-10, A = 11-20, S = 21-40,
\* SS = 41-70, SSS = 71-100, Z >= 101), whichever writer changed the combo last.
C31_RatingFollowsTempo ==
  /\ player.tempo = 0 <=> player.tempoRating = "F"
  /\ player.tempo \in 1..2 <=> player.tempoRating = "D"
  /\ player.tempo \in 3..5 <=> player.tempoRating = "C"
  /\ player.tempo \in 6..10 <=> player.tempoRating = "B"
  /\ player.tempo \in 11..20 <=> player.tempoRating = "A"
  /\ player.tempo \in 21..40 <=> player.tempoRating = "S"
  /\ player.tempo \in 41..70 <=> player.tempoRating = "SS"
  /\ player.tempo \in 71..100 <=> player.tempoRating = "SSS"
  /\ player.tempo >= 101 <=> player.tempoRating = "Z"

\* the hundred-and-first kill of a streak has just been registered
C31_ReachedZ ==
  /\ out.op = "registerKill"
  /\ player.tempo = 101
  /\ player.tempoRating = "Z"

\* C32: advancing from level X to X+1 gains the increment of the band whose
\* level range contains X (1-10: +4 health +1 damage, 11-20: +8 +2, ...), from
\* the base (10, 1) at level 1, the last band serving every level beyond the
\* table; so getStatsForLevel(11) = {health 50, damage 11}.
C32_BandContainsLevel ==
  LET bands == Len(STAT_INCREMENTS)
      levelsIn(k, n) ==
        Cardinality({X \in 1..(n - 1) :
                       IF (X - 1) \div 10 + 1 <= bands
                       THEN (X - 1) \div 10 + 1 = k
                       ELSE k = bands})
      hp[k \in 0..bands] ==
        IF k = 0 THEN 10
        ELSE hp[k - 1] + levelsIn(k, out.arg) * STAT_INCREMENTS[k].hp
      dmg[k \in 0..bands] ==
        IF k = 0 THEN 1
        ELSE dmg[k - 1] + levelsIn(k, out.arg) * STAT_INCREMENTS[k].dmg
  IN  out.op = "getStatsForLevel"
        => /\ out.ret = [health |-> hp[bands], damage |-> dmg[bands]]
           /\ out.arg = 11 => out.ret = [health |-> 50, damage |-> 11]

\* C33: applySlow(percent, d) with percent >= 0 sets speedModifier at once to
\* max(0.1, 1 - percent/100); when no slow timer is outstanding any more the
\* modifier is 1.0 again, and it stays 1.0 until the next applySlow.
C33_SlowEndsAtFullSpeed ==
  /\ []((\A t \in timers : t.kind # "slowEnd") => player.speedModifier = 100)
  /\ [][/\ out'.op = "applySlow"
             => /\ player'.speedModifier \in {100, 80, 10}
                /\ \E percent \in SlowPercents :
                      player'.speedModifier * 100 =
                        IF 100 * 10 >= 100 * (100 - percent) THEN 100 * 10
                        ELSE 100 * (100 - percent)
        /\ ((\A t \in timers : t.kind # "slowEnd") /\ out'.op # "applySlow")
             => player'.speedModifier = 100]_vars

\* the last outstanding reset has fired, five seconds or more into the run
C33_AllSlowsOver ==
  /\ out.op = "slowEnd"
  /\ \A t \in timers : t.kind # "slowEnd"
  /\ player.speedModifier = 100
  /\ now >= StartTime + 10

\* C34: every accepted attack ends: as long as play goes on (or comes back),
\* isAttacking set by attack() is eventually cleared again, by the animation's
\* stopAttack or by respawn or resetPlayer.
C34_AttackEnds ==
  ([]<>(gameState = "playing")) => (player.isAttacking ~> ~player.isAttacking)

\* the animation has ended an attack
C34_AttackEnded ==
  /\ out.op = "stopAttack"
  /\ ~player.isAttacking
  /\ player.lastAttackTime >= StartTime

\* C35: in every reachable state the stored derived stats agree with the
\* lookup tables: maxHealth, damage and basicAttackDamage with
\* getStatsForLevel(level); speed, critChance and defense with the equipped
\* reed's values (4.5, 0 and 0 without a reed); maxXp with
\* getXpRequiredForLevel(level).
C35_DerivedStatsAgree ==
  /\ player.maxHealth = getStatsForLevel(player.level).health * HpScale
  /\ player.damage = getStatsForLevel(player.level).damage
  /\ player.basicAttackDamage = getStatsForLevel(player.level).damage
  /\ player.speed = calculateStats(player.level, player.equippedReed).speed
  /\ player.critChance = calculateStats(player.level, player.equippedReed).critChance
  /\ player.defense = calculateStats(player.level, player.equippedReed).defense
  /\ player.equippedReed = null
       => player.speed = 450 /\ player.critChance = 0 /\ player.defense = 0
  /\ player.maxXp = getXpRequiredForLevel(player.level) * XpScale

C37_SaveLoadRoundTrip ==
  LET S == player
      loaded == loadState(resetPlayer(Cur), SaveData(S)).player
  IN  \A k \in {"level", "health", "xp", "echoes", "position", "inventory",
                "equippedReed", "reedDurability", "embouchure", "embouchureXp"} :
         loaded[k] = S[k]

\* C38: each successful triggerLongTone() keeps isLongToneActive true for the
\* full 3000 ms unless respawn or resetPlayer clears it: whenever the flag
\* falls, the activation it ends began 3000 ms ago or longer (a timer left
\* over from an earlier activation ends no later one early).
C38_LongToneLastsFullDuration ==
  [][(player.isLongToneActive /\ ~player'.isLongToneActive)
        => \/ out'.op \in {"respawn", "resetPlayer"}
           \/ (now' - (player.longToneCooldown - 15)) * TimeUnit >= 3000]_vars

\* C39: triggerLongTone() changes nothing while now < longToneCooldown, and a
\* successful one sets the cooldown 7500 ms ahead; so whenever
\* isLongToneActive holds the cooldown has not expired (no re-trigger while
\* active), and without resetPlayer activations are 7500 ms or more apart.
C39_NoRetriggerInCooldown ==
  /\ [](player.isLongToneActive => now < player.longToneCooldown)
  /\ [][out'.op = "triggerLongTone"
          => IF now < player.longToneCooldown
             THEN player' = player /\ timers' = timers
             ELSE /\ player'.isLongToneActive
                  /\ (player'.longToneCooldown - now) * TimeUnit = 7500]_vars
  /\ [][(out'.op # "resetPlayer" /\ player'.longToneCooldown # player.longToneCooldown)
          => /\ out'.op = "triggerLongTone"
             /\ (player'.longToneCooldown - player.longToneCooldown) * TimeUnit >= 7500]_vars

\* a trigger was refused after the tone had ended, the cooldown still running
C39_RefusedInCooldown ==
  /\ out.op = "triggerLongTone"
  /\ ~player.isLongToneActive
  /\ now < player.longToneCooldown
  /\ \A t \in timers : t.kind # "longToneEnd"

====
